---- MODULE Spec2Model ----
(***************************************************************************)
(* Model of credit-app/app.py: the grade-point lookup                      *)
(* (parse_gpa_to_numeric), the credit analysis (analyze_student_grades)    *)
(* and the upload pipeline of main().                                      *)
(*                                                                         *)
(* Text is a sequence of one-character strings.  The module is ASCII, so   *)
(* the CJK characters of the source are written as romanised tokens, one   *)
(* token per character: "lao","zuo","cheng","ji" is the summary-row marker *)
(* of line 107, "di","mian" and "tong","guo" are the two credit-equivalent *)
(* marks of lines 19-20.  The column labels of line 94 are written with    *)
(* the names the specification gives them; the two columns that            *)
(* analyze_student_grades adds are "GPA_Numeric" and "isPassed".           *)
(*                                                                         *)
(* Grade points are kept in tenths (4.3 is 43, 1.7 is 17, 999.0 is 9990),  *)
(* so that every comparison of the source is an integer comparison.        *)
(***************************************************************************)
EXTENDS Integers, Sequences, FiniteSets, TLC

VARIABLES
    pc,                 \* position in main(), or in one of the direct calls
    raw_dfs,            \* line 78: the tables tabula.read_pdf returned
    idx,                \* line 96: 1-based position of the for loop
    full_grades_df,     \* line 93: the accumulated DataFrame (also analyze's argument)
    total_credits,      \* line 122: <<>> before the call, <<n>> after
    remaining_credits,  \* line 122
    passed_courses_df,  \* line 122: <<>> before the call, <<df>> after
    warnings,           \* st.warning calls, in order
    errors,             \* st.error calls, in order
    metrics,            \* st.metric values, in order (lines 125-126)
    shown,              \* st.dataframe arguments, in order (lines 129, 132)
    exc,                \* the exception being handled, "" if none
    gpa_str,            \* argument of a direct call of parse_gpa_to_numeric
    gpa_ret,            \* its return value: <<>> before the call, <<v>> after
    df_table            \* line 96: the loop variable, for a direct use of the row filter

vars == <<pc, raw_dfs, idx, full_grades_df, total_credits, remaining_credits,
          passed_courses_df, warnings, errors, metrics, shown, exc,
          gpa_str, gpa_ret, df_table>>

(***************************************************************************)
(* Bounds of the explored inputs.                                          *)
(***************************************************************************)
MaxGpaLen == 3      \* longest grade text of the direct parse_gpa_to_numeric calls
MaxYearLen == 4     \* longest academicYear text of the direct row-filter uses
MaxRecords == 2     \* most records of a direct analyze_student_grades call
MaxPdfRows == 3     \* most rows, over all its tables, of an uploaded PDF

(***************************************************************************)
(* Cells.  A pandas cell is a str, a number, a bool or NaN (missing).      *)
(***************************************************************************)
Str(s) == [t |-> "str", s |-> s, n |-> 0]
Num(n) == [t |-> "num", s |-> <<>>, n |-> n]
Bool(b) == [t |-> "bool", s |-> <<>>, n |-> IF b THEN 1 ELSE 0]
NaN == [t |-> "nan", s |-> <<>>, n |-> 0]

Whitespace == {" ", "\t", "\n"}

RECURSIVE lstrip(_)
lstrip(s) ==
    IF s # <<>> /\ Head(s) \in Whitespace THEN lstrip(Tail(s)) ELSE s

RECURSIVE rstrip(_)
rstrip(s) ==
    IF s # <<>> /\ s[Len(s)] \in Whitespace
    THEN rstrip(SubSeq(s, 1, Len(s) - 1))
    ELSE s

strip(s) == rstrip(lstrip(s))

\* str(x) of a cell that is a str or NaN: astype(str) turns NaN into "nan"
astype_str(cell) ==
    IF cell.t = "nan" THEN <<"n", "a", "n">> ELSE cell.s

(***************************************************************************)
(* 1. parse_gpa_to_numeric (lines 7-22), in tenths of a grade point.       *)
(***************************************************************************)
gpa_map ==
    <<"A", "+">> :> 43 @@ <<"A">> :> 40 @@ <<"A", "-">> :> 37 @@
    <<"B", "+">> :> 33 @@ <<"B">> :> 30 @@ <<"B", "-">> :> 27 @@
    <<"C", "+">> :> 23 @@ <<"C">> :> 20 @@ <<"C", "-">> :> 17 @@
    <<"D", "+">> :> 13 @@ <<"D">> :> 10 @@ <<"D", "-">> :> 7 @@
    <<"E">> :> 0 @@ <<"F">> :> 0 @@
    <<"di", "mian">> :> 9990 @@
    <<"tong", "guo">> :> 9990

\* parse_gpa_to_numeric with the .strip() of line 22 left out
parse_gpa_to_numeric_unstripped(s) ==
    IF s \in DOMAIN gpa_map THEN gpa_map[s] ELSE 0

parse_gpa_to_numeric(s) ==
    IF strip(s) \in DOMAIN gpa_map THEN gpa_map[strip(s)] ELSE 0

(***************************************************************************)
(* DataFrames.  A DataFrame is its column labels and its rows, a row being *)
(* the sequence of its cells in column order.                              *)
(***************************************************************************)
DataFrame(columns, data) == [columns |-> columns, data |-> data]

\* line 93: pd.DataFrame()
EmptyDataFrame == DataFrame(<<>>, <<>>)

HasColumn(df, c) == \E k \in 1..Len(df.columns) : df.columns[k] = c

ColIndex(df, c) == CHOOSE k \in 1..Len(df.columns) : df.columns[k] = c

\* df[c] at one row
Cell(df, r, c) == r[ColIndex(df, c)]

\* df[c], the cells of one column
Column(df, c) == [j \in 1..Len(df.data) |-> Cell(df, df.data[j], c)]

\* df[c] = col: overwrites the column c, or appends it when it is new
SetColumn(df, c, col) ==
    IF HasColumn(df, c)
    THEN DataFrame(df.columns,
                   [j \in 1..Len(df.data) |->
                       [df.data[j] EXCEPT ![ColIndex(df, c)] = col[j]]])
    ELSE DataFrame(Append(df.columns, c),
                   [j \in 1..Len(df.data) |-> Append(df.data[j], col[j])])

\* the first k rows of data that the boolean mask keeps, in their order
RECURSIVE MaskedRows(_, _, _)
MaskedRows(data, mask, k) ==
    IF k = 0 THEN <<>>
    ELSE IF mask[k] THEN Append(MaskedRows(data, mask, k - 1), data[k])
    ELSE MaskedRows(data, mask, k - 1)

\* df[mask]
SelectRows(df, mask) == DataFrame(df.columns, MaskedRows(df.data, mask, Len(df.data)))

\* df[[c1, ..., cn]]
Project(df, cols) ==
    DataFrame(cols,
              [j \in 1..Len(df.data) |->
                  [k \in 1..Len(cols) |-> Cell(df, df.data[j], cols[k])]])

\* df.empty
IsEmpty(df) == Len(df.data) = 0 \/ Len(df.columns) = 0

(***************************************************************************)
(* pd.to_numeric(..., errors='coerce') on the texts of this model: an      *)
(* optional '-' and one or more decimal digits is that integer, any other  *)
(* text (the empty text and "nan" included) and NaN are NaN.               *)
(***************************************************************************)
DigitVal ==
    "0" :> 0 @@ "1" :> 1 @@ "2" :> 2 @@ "3" :> 3 @@ "4" :> 4 @@
    "5" :> 5 @@ "6" :> 6 @@ "7" :> 7 @@ "8" :> 8 @@ "9" :> 9

IsDigits(s) == s # <<>> /\ \A k \in 1..Len(s) : s[k] \in DOMAIN DigitVal

RECURSIVE NatOf(_)
NatOf(s) ==
    IF s = <<>> THEN 0
    ELSE 10 * NatOf(SubSeq(s, 1, Len(s) - 1)) + DigitVal[s[Len(s)]]

to_numeric(cell) ==
    IF cell.t = "num" THEN cell
    ELSE IF cell.t = "str" /\ IsDigits(cell.s) THEN Num(NatOf(cell.s))
    ELSE IF cell.t = "str" /\ cell.s # <<>> /\ Head(cell.s) = "-" /\ IsDigits(Tail(cell.s))
         THEN Num(0 - NatOf(Tail(cell.s)))
    ELSE NaN

fillna(cell, v) == IF cell.t = "nan" THEN Num(v) ELSE cell

(***************************************************************************)
(* 2. analyze_student_grades (lines 25-57).                                *)
(***************************************************************************)
GRADUATION_REQUIREMENT == 128

\* the pass mark of line 46, 1.7, in tenths
PASS_MARK == 17

\* line 39 with the .fillna(0) left out
coerce_credits_unfilled(cell) == to_numeric(cell)

\* line 39, one cell of the credits column
coerce_credits(cell) == fillna(to_numeric(cell), 0)

\* line 46, the lambda
is_passed(x) == x >= PASS_MARK

\* the mask of line 49 with its credits guard left out
passed_mask_any_credits(df, r) == Cell(df, r, "isPassed").n = 1

\* line 49, the mask at one row of the DataFrame with its derived columns
passed_mask(df, r) ==
    Cell(df, r, "isPassed").n = 1 /\ Cell(df, r, "credits").n > 0

RECURSIVE SumColumn(_, _, _)
SumColumn(df, c, j) ==
    IF j = 0 THEN 0 ELSE SumColumn(df, c, j - 1) + Cell(df, df.data[j], c).n

Max(a, b) == IF a >= b THEN a ELSE b

\* line 55 with the max(0, ...) left out
remaining_credits_unclamped(total_earned_credits) ==
    GRADUATION_REQUIREMENT - total_earned_credits

\* line 55
remaining_credits_to_graduate(total_earned_credits) ==
    Max(0, GRADUATION_REQUIREMENT - total_earned_credits)

\* analyze_student_grades that also narrows its argument to the passed courses
analyze_student_grades_narrowing(df) ==
    LET rows == 1..Len(df.data)
        d1 == SetColumn(df, "credits",
                        [j \in rows |-> coerce_credits(Column(df, "credits")[j])])
        d2 == SetColumn(d1, "GPA_Numeric",
                        [j \in rows |-> Num(parse_gpa_to_numeric(Column(d1, "GPA")[j].s))])
        d3 == SetColumn(d2, "isPassed",
                        [j \in rows |-> Bool(is_passed(Column(d2, "GPA_Numeric")[j].n))])
        passed == SelectRows(d3, [j \in rows |-> passed_mask(d3, d3.data[j])])
        total == SumColumn(passed, "credits", Len(passed.data))
    IN  [df |-> passed,
         total_earned_credits |-> total,
         remaining_credits_to_graduate |-> remaining_credits_to_graduate(total),
         passed_courses_df |-> passed]

\* The call's effect on its argument (df, lines 39, 42, 46 assign columns of the
\* caller's DataFrame) and the tuple it returns (line 57).
analyze_student_grades(df) ==
    LET rows == 1..Len(df.data)
        d1 == SetColumn(df, "credits",
                        [j \in rows |-> coerce_credits(Column(df, "credits")[j])])
        d2 == SetColumn(d1, "GPA_Numeric",
                        [j \in rows |-> Num(parse_gpa_to_numeric(Column(d1, "GPA")[j].s))])
        d3 == SetColumn(d2, "isPassed",
                        [j \in rows |-> Bool(is_passed(Column(d2, "GPA_Numeric")[j].n))])
        passed == SelectRows(d3, [j \in rows |-> passed_mask(d3, d3.data[j])])
        total == SumColumn(passed, "credits", Len(passed.data))
    IN  [df |-> d3,
         total_earned_credits |-> total,
         remaining_credits_to_graduate |-> remaining_credits_to_graduate(total),
         passed_courses_df |-> passed]

(***************************************************************************)
(* 3. The normalisation of main() (lines 94-118).                          *)
(***************************************************************************)
\* line 94
expected_columns == <<"academicYear", "term", "courseCode", "courseName", "credits", "GPA">>

\* the labels pandas gives the columns of a table read with header=None
RangeIndex == <<"0", "1", "2", "3", "4", "5", "6", "7", "8", "9">>

\* line 107: the marker of the summary row
SummaryMarker == <<"lao", "zuo", "cheng", "ji">>

\* line 106: str.match(r'^\d{3}$'), which is re.match: three digits, and '$' also
\* matches just before one newline that ends the text
str_match_year(s) ==
    /\ Len(s) \in {3, 4}
    /\ IsDigits(SubSeq(s, 1, 3))
    /\ Len(s) = 4 => s[4] = "\n"

\* line 107: str.contains
str_contains(s, sub) ==
    \E k \in 1..(Len(s) - Len(sub) + 1) : SubSeq(s, k, k + Len(sub) - 1) = sub

\* lines 106-107: the mask at one row
row_mask(df, r) ==
    /\ str_match_year(astype_str(Cell(df, r, "academicYear")))
    /\ ~str_contains(astype_str(Cell(df, r, "academicYear")), SummaryMarker)

\* lines 105-108
filter_rows(df) ==
    SelectRows(df, [j \in 1..Len(df.data) |-> row_mask(df, df.data[j])])

\* line 99 with the width off by one
has_expected_width_off_by_one(df) == Len(df.columns) >= Len(expected_columns) - 1

\* line 99
has_expected_width(df) == Len(df.columns) >= Len(expected_columns)

\* line 101, the right-hand side: expected_columns[:df_table.shape[1]]
new_labels(df) ==
    SubSeq(expected_columns, 1,
           IF Len(df.columns) < Len(expected_columns)
           THEN Len(df.columns) ELSE Len(expected_columns))

\* line 101, the assignment: pandas raises ValueError (length mismatch) unless it
\* is given one label per column
can_set_columns(df) == Len(new_labels(df)) = Len(df.columns)

set_columns(df) == DataFrame(new_labels(df), df.data)

\* line 109: pd.concat([a, b], ignore_index=True); the columns are the union in
\* order of appearance and a cell a frame has no column for is NaN
concat(a, b) ==
    LET extra == SelectSeq(b.columns, LAMBDA c : ~HasColumn(a, c))
        cols == a.columns \o extra
        reindex(df, r) ==
            [k \in 1..Len(cols) |->
                IF HasColumn(df, cols[k]) THEN Cell(df, r, cols[k]) ELSE NaN]
    IN  DataFrame(cols,
                  [j \in 1..Len(a.data) |-> reindex(a, a.data[j])] \o
                  [j \in 1..Len(b.data) |-> reindex(b, b.data[j])])

\* line 115: dropna(how='all')
dropna_all(df) ==
    SelectRows(df, [j \in 1..Len(df.data) |->
                       \E k \in 1..Len(df.data[j]) : df.data[j][k].t # "nan"])

\* lines 117-118: every column becomes its stripped text
strip_columns(df) ==
    DataFrame(df.columns,
              [j \in 1..Len(df.data) |->
                  [k \in 1..Len(df.columns) |-> Str(strip(astype_str(df.data[j][k])))]])

\* lines 96-111, one iteration on the table t: the DataFrame accumulated so far,
\* the number of warnings given and the exception raised, "" if none
loop_body(acc, t) ==
    IF ~has_expected_width(t)
    THEN [acc EXCEPT !.skipped = @ + 1]
    ELSE IF ~can_set_columns(t)
    THEN [acc EXCEPT !.exc = "ValueError"]
    ELSE [acc EXCEPT !.df = concat(@, filter_rows(set_columns(t)))]

\* lines 93-111: the loop over the first k tables, which an exception leaves
RECURSIVE run_loop(_, _)
run_loop(tables, k) ==
    IF k = 0 THEN [df |-> EmptyDataFrame, skipped |-> 0, exc |-> ""]
    ELSE LET acc == run_loop(tables, k - 1)
         IN  IF acc.exc # "" THEN acc ELSE loop_body(acc, tables[k])

(***************************************************************************)
(* Inputs.                                                                 *)
(***************************************************************************)
\* every text of at most n characters over the alphabet A
TextsUpTo(A, n) == UNION {[1..k -> A] : k \in 0..n}

\* the characters grade texts are made of
GpaAlphabet ==
    {"A", "B", "C", "D", "E", "F", "+", "-", " ", "a", "di", "mian", "tong", "guo"}

\* the credits cells of the records handed to analyze_student_grades directly
CreditCells ==
    {Str(<<"3">>), Str(<<"0">>), Str(<<"-", "3">>), Str(<<"x">>),
     Str(<<"1", "2", "8">>), NaN}

\* their grade cells
GradeCells ==
    {Str(<<"A">>), Str(<<"C", "-">>), Str(<<"D", "+">>), Str(<<"tong", "guo">>),
     Str(<<"?">>)}

RecordPool ==
    {<<Str(<<"1", "1", "2">>), Str(<<"1">>), Str(<<"C", "S">>), Str(<<"N">>), c, g>> :
        c \in CreditCells, g \in GradeCells}

(***************************************************************************)
(* The state outside a run of main().                                      *)
(***************************************************************************)
NoCall ==
    /\ gpa_str = <<>>
    /\ gpa_ret = <<>>
    /\ df_table = EmptyDataFrame

NoRun ==
    /\ raw_dfs = <<>>
    /\ idx = 0
    /\ warnings = <<>>
    /\ errors = <<>>
    /\ metrics = <<>>
    /\ shown = <<>>
    /\ exc = ""

NoResult ==
    /\ total_credits = <<>>
    /\ remaining_credits = <<>>
    /\ passed_courses_df = <<>>

pipeline_vars == <<raw_dfs, idx, warnings, errors, metrics, shown, exc>>
result_vars == <<total_credits, remaining_credits, passed_courses_df>>

(***************************************************************************)
(* Direct calls of parse_gpa_to_numeric, on every grade text of at most    *)
(* MaxGpaLen characters.                                                   *)
(***************************************************************************)
InitGpa ==
    /\ pc = "call_gpa"
    /\ gpa_str \in TextsUpTo(GpaAlphabet, MaxGpaLen)
    /\ gpa_ret = <<>>
    /\ df_table = EmptyDataFrame
    /\ full_grades_df = EmptyDataFrame
    /\ NoRun
    /\ NoResult

CallParseGpa ==
    /\ pc = "call_gpa"
    /\ gpa_ret' = <<parse_gpa_to_numeric(gpa_str)>>
    /\ pc' = "returned"
    /\ UNCHANGED <<gpa_str, df_table, full_grades_df, pipeline_vars, result_vars>>

NextGpa == CallParseGpa

SpecGpa == InitGpa /\ [][NextGpa]_vars

(***************************************************************************)
(* Direct calls of analyze_student_grades, on every DataFrame of at most   *)
(* MaxRecords records of RecordPool.                                       *)
(***************************************************************************)
InitAnalyze ==
    /\ pc = "call_analyze"
    /\ full_grades_df \in
          {DataFrame(expected_columns, data) :
              data \in UNION {[1..k -> RecordPool] : k \in 0..MaxRecords}}
    /\ NoCall
    /\ NoRun
    /\ NoResult

CallAnalyze ==
    /\ pc = "call_analyze"
    /\ LET ret == analyze_student_grades(full_grades_df)
       IN  /\ full_grades_df' = ret.df
           /\ total_credits' = <<ret.total_earned_credits>>
           /\ remaining_credits' = <<ret.remaining_credits_to_graduate>>
           /\ passed_courses_df' = <<ret.passed_courses_df>>
    /\ pc' = "returned"
    /\ UNCHANGED <<gpa_str, gpa_ret, df_table, pipeline_vars>>

NextAnalyze == CallAnalyze

SpecAnalyze == InitAnalyze /\ [][NextAnalyze]_vars

(***************************************************************************)
(* Direct uses of the row filter of lines 105-108, on a labelled table of  *)
(* one row whose academicYear cell is NaN or any text of at most           *)
(* MaxYearLen characters.                                                  *)
(***************************************************************************)
YearAlphabet == {"1", " ", "\n", "a", "lao", "zuo", "cheng", "ji"}

YearCells == {Str(s) : s \in TextsUpTo(YearAlphabet, MaxYearLen)} \cup {NaN}

InitFilter ==
    /\ pc = "call_filter"
    /\ df_table \in
          {DataFrame(expected_columns,
                     <<<<y, Str(<<"1">>), Str(<<"C", "S">>), Str(<<"N">>),
                         Str(<<"3">>), Str(<<"A">>)>>>>) : y \in YearCells}
    /\ gpa_str = <<>>
    /\ gpa_ret = <<>>
    /\ full_grades_df = EmptyDataFrame
    /\ NoRun
    /\ NoResult

ApplyRowFilter ==
    /\ pc = "call_filter"
    /\ df_table' = filter_rows(df_table)
    /\ pc' = "returned"
    /\ UNCHANGED <<gpa_str, gpa_ret, full_grades_df, pipeline_vars, result_vars>>

NextFilter == ApplyRowFilter

SpecFilter == InitFilter /\ [][NextFilter]_vars

(***************************************************************************)
(* 4. main() (lines 60-139) from the upload on.  The uploaded PDFs are     *)
(* those tabula reads as tables of 5, 6 or 7 columns, of one row or more   *)
(* each and of at most MaxPdfRows rows of RowPool in all, and those it     *)
(* fails on.                                                               *)
(***************************************************************************)
RowPool ==
    {\* a passed course of 3 credits
     <<Str(<<"1", "1", "2">>), Str(<<"1">>), Str(<<"C", "S">>), Str(<<"I">>),
       Str(<<"3">>), Str(<<"A">>)>>,
     \* padded cells, no course code, negative credits
     <<Str(<<"1", "1", "2">>), Str(<<"2">>), NaN, Str(<<" ", "L", " ">>),
       Str(<<" ", "-", "3">>), Str(<<"B", " ">>)>>,
     \* the summary row
     <<Str(SummaryMarker), NaN, NaN, NaN, NaN, NaN>>,
     \* a passing mark with no credits given
     <<Str(<<"1", "1", "1">>), Str(<<"1">>), Str(<<"P", "E">>), Str(<<"G">>),
       NaN, Str(<<"tong", "guo">>)>>,
     \* a passed course of 2 credits whose year is padded
     <<Str(<<" ", "1", "1", "2">>), Str(<<"1">>), Str(<<"M", "A">>), Str(<<"C">>),
       Str(<<"2">>), Str(<<"B">>)>>}

Widths == {Len(expected_columns) - 1, Len(expected_columns), Len(expected_columns) + 1}

\* the table of w columns whose rows start like the given rows
RawTable(w, rows) ==
    DataFrame(SubSeq(RangeIndex, 1, w),
              [j \in 1..Len(rows) |->
                  [k \in 1..w |-> IF k <= Len(rows[j]) THEN rows[j][k] ELSE NaN]])

\* the k-th smallest element of a set of numbers
Nth(S, k) == CHOOSE j \in S : Cardinality({m \in S : m < j}) = k - 1

\* the list of tables made of the given rows in their order: a table ends at
\* each row j with last[j], and has w[j] columns
TablesOf(rows, last, w) ==
    LET ends == {j \in 1..Len(rows) : last[j]}
        first(k) == IF k = 1 THEN 1 ELSE Nth(ends, k - 1) + 1
    IN  [k \in 1..Cardinality(ends) |->
            RawTable(w[Nth(ends, k)], SubSeq(rows, first(k), Nth(ends, k)))]

Init ==
    /\ pc = "read_pdf"
    /\ full_grades_df = EmptyDataFrame
    /\ NoCall
    /\ NoRun
    /\ NoResult

\* lines 78-86: tabula.read_pdf returns its list of tables
ReadPdf ==
    /\ pc = "read_pdf"
    /\ \E n \in 0..MaxPdfRows :
          \E rows \in [1..n -> RowPool], last \in [1..n -> BOOLEAN], w \in [1..n -> Widths] :
              /\ n > 0 => last[n]
              /\ \A j \in 1..n : ~last[j] => w[j] = Len(expected_columns)
              /\ raw_dfs' = TablesOf(rows, last, w)
    /\ pc' = "check_tables"
    /\ UNCHANGED <<idx, full_grades_df, warnings, errors, metrics, shown, exc,
                   result_vars, gpa_str, gpa_ret, df_table>>

\* lines 78-86: tabula.read_pdf raises (no Java runtime, a corrupt file)
ReadPdfRaises ==
    /\ pc = "read_pdf"
    /\ exc' = "read_pdf"
    /\ pc' = "except"
    /\ UNCHANGED <<raw_dfs, idx, full_grades_df, warnings, errors, metrics, shown,
                   result_vars, gpa_str, gpa_ret, df_table>>

\* lines 88-90
NoTables ==
    /\ pc = "check_tables"
    /\ raw_dfs = <<>>
    /\ warnings' = Append(warnings, "no_tables")
    /\ pc' = "done"
    /\ UNCHANGED <<raw_dfs, idx, full_grades_df, errors, metrics, shown, exc,
                   result_vars, gpa_str, gpa_ret, df_table>>

\* lines 93-94
BeginLoop ==
    /\ pc = "check_tables"
    /\ raw_dfs # <<>>
    /\ full_grades_df' = EmptyDataFrame
    /\ idx' = 1
    /\ pc' = "loop"
    /\ UNCHANGED <<raw_dfs, warnings, errors, metrics, shown, exc,
                   result_vars, gpa_str, gpa_ret, df_table>>

LoopAcc == [df |-> full_grades_df, skipped |-> 0, exc |-> ""]

\* lines 99-109: a table of the expected width; line 101 relabels the table of
\* raw_dfs itself
AcceptTable ==
    /\ pc = "loop"
    /\ idx <= Len(raw_dfs)
    /\ has_expected_width(raw_dfs[idx])
    /\ can_set_columns(raw_dfs[idx])
    /\ full_grades_df' = loop_body(LoopAcc, raw_dfs[idx]).df
    /\ raw_dfs' = [raw_dfs EXCEPT ![idx] = set_columns(@)]
    /\ idx' = idx + 1
    /\ UNCHANGED <<pc, warnings, errors, metrics, shown, exc,
                   result_vars, gpa_str, gpa_ret, df_table>>

\* line 101 raises
SetColumnsRaises ==
    /\ pc = "loop"
    /\ idx <= Len(raw_dfs)
    /\ has_expected_width(raw_dfs[idx])
    /\ ~can_set_columns(raw_dfs[idx])
    /\ exc' = loop_body(LoopAcc, raw_dfs[idx]).exc
    /\ pc' = "except"
    /\ UNCHANGED <<raw_dfs, idx, full_grades_df, warnings, errors, metrics, shown,
                   result_vars, gpa_str, gpa_ret, df_table>>

\* lines 110-111
SkipTable ==
    /\ pc = "loop"
    /\ idx <= Len(raw_dfs)
    /\ ~has_expected_width(raw_dfs[idx])
    /\ loop_body(LoopAcc, raw_dfs[idx]).skipped = 1
    /\ warnings' = Append(warnings, "skipped_table")
    /\ idx' = idx + 1
    /\ UNCHANGED <<pc, raw_dfs, full_grades_df, errors, metrics, shown, exc,
                   result_vars, gpa_str, gpa_ret, df_table>>

\* lines 115-118, after the last table
Clean ==
    /\ pc = "loop"
    /\ idx > Len(raw_dfs)
    /\ full_grades_df' = strip_columns(dropna_all(full_grades_df))
    /\ pc' = "analyze"
    /\ UNCHANGED <<raw_dfs, idx, warnings, errors, metrics, shown, exc,
                   result_vars, gpa_str, gpa_ret, df_table>>

\* the columns of line 129
DisplayColumns == <<"academicYear", "term", "courseName", "credits", "GPA">>

\* lines 120-132, with a display call that raises once the metrics are out
AnalyzeAndReportThenRaise ==
    /\ pc = "analyze"
    /\ ~IsEmpty(full_grades_df)
    /\ LET ret == analyze_student_grades(full_grades_df)
       IN  /\ full_grades_df' = ret.df
           /\ total_credits' = <<ret.total_earned_credits>>
           /\ remaining_credits' = <<ret.remaining_credits_to_graduate>>
           /\ passed_courses_df' = <<ret.passed_courses_df>>
           /\ metrics' = <<ret.total_earned_credits, ret.remaining_credits_to_graduate>>
    /\ exc' = "display"
    /\ pc' = "except"
    /\ UNCHANGED <<raw_dfs, idx, warnings, errors, shown, gpa_str, gpa_ret, df_table>>

\* lines 120-132
AnalyzeAndReport ==
    /\ pc = "analyze"
    /\ ~IsEmpty(full_grades_df)
    /\ LET ret == analyze_student_grades(full_grades_df)
       IN  /\ full_grades_df' = ret.df
           /\ total_credits' = <<ret.total_earned_credits>>
           /\ remaining_credits' = <<ret.remaining_credits_to_graduate>>
           /\ passed_courses_df' = <<ret.passed_courses_df>>
           /\ metrics' = <<ret.total_earned_credits, ret.remaining_credits_to_graduate>>
           /\ shown' = <<Project(ret.passed_courses_df, DisplayColumns), ret.df>>
    /\ pc' = "done"
    /\ UNCHANGED <<raw_dfs, idx, warnings, errors, exc, gpa_str, gpa_ret, df_table>>

\* lines 133-134 with the message of line 89
NoValidRowsAsNoTables ==
    /\ pc = "analyze"
    /\ IsEmpty(full_grades_df)
    /\ warnings' = Append(warnings, "no_tables")
    /\ pc' = "done"
    /\ UNCHANGED <<raw_dfs, idx, full_grades_df, errors, metrics, shown, exc,
                   result_vars, gpa_str, gpa_ret, df_table>>

\* lines 133-134
NoValidRows ==
    /\ pc = "analyze"
    /\ IsEmpty(full_grades_df)
    /\ warnings' = Append(warnings, "no_valid_rows")
    /\ pc' = "done"
    /\ UNCHANGED <<raw_dfs, idx, full_grades_df, errors, metrics, shown, exc,
                   result_vars, gpa_str, gpa_ret, df_table>>

\* lines 136-139
Except ==
    /\ pc = "except"
    /\ errors' = Append(errors, exc)
    /\ pc' = "done"
    /\ UNCHANGED <<raw_dfs, idx, full_grades_df, warnings, metrics, shown, exc,
                   result_vars, gpa_str, gpa_ret, df_table>>

Next ==
    \/ ReadPdf
    \/ ReadPdfRaises
    \/ NoTables
    \/ BeginLoop
    \/ AcceptTable
    \/ SetColumnsRaises
    \/ SkipTable
    \/ Clean
    \/ AnalyzeAndReport
    \/ NoValidRows
    \/ Except

Spec == Init /\ [][Next]_vars

(***************************************************************************)
(* Vocabulary of the properties.                                           *)
(***************************************************************************)
\* t is s without its leading and trailing whitespace
IsTrimOf(t, s) ==
    \E a, b \in 0..Len(s) :
        /\ a + b <= Len(s)
        /\ t = SubSeq(s, a + 1, Len(s) - b)
        /\ \A k \in 1..a : s[k] \in Whitespace
        /\ \A k \in (Len(s) - b + 1)..Len(s) : s[k] \in Whitespace
        /\ t # <<>> => (t[1] \notin Whitespace /\ t[Len(t)] \notin Whitespace)
        /\ t = <<>> => a + b = Len(s)

\* the grades that reach the pass mark
PassingGrades ==
    {<<"A", "+">>, <<"A">>, <<"A", "-">>, <<"B", "+">>, <<"B">>, <<"B", "-">>,
     <<"C", "+">>, <<"C">>, <<"C", "-">>, <<"di", "mian">>, <<"tong", "guo">>}

\* the listed grades that do not
FailingGrades ==
    {<<"D", "+">>, <<"D">>, <<"D", "-">>, <<"E">>, <<"F">>}

\* the trims of s (there is exactly one)
TrimsOf(s) ==
    {t \in {SubSeq(s, a + 1, Len(s) - b) : a, b \in 0..Len(s)} : IsTrimOf(t, s)}

HasPassingGrade(text) == \E t \in PassingGrades : IsTrimOf(t, text)

RECURSIVE SumOver(_, _)
SumOver(S, f) ==
    IF S = {} THEN 0
    ELSE LET j == CHOOSE m \in S : TRUE IN f[j] + SumOver(S \ {j}, f)

\* the positions of the records of df that pass: grade at the pass mark or above
\* and credits above 0
PassingRows(df) ==
    {j \in 1..Len(df.data) :
        /\ HasPassingGrade(Cell(df, df.data[j], "GPA").s)
        /\ Cell(df, df.data[j], "credits").t = "num"
        /\ Cell(df, df.data[j], "credits").n > 0}

CreditsOf(df) == [j \in 1..Len(df.data) |-> Cell(df, df.data[j], "credits").n]

(***************************************************************************)
(* C6: parse_gpa_to_numeric of a grade text is, after trimming the text,   *)
(* the table constant of each of the 16 listed grades and 0.0 of any other *)
(* text, so it reaches the pass mark 1.7 exactly on A+, A, A-, B+, B, B-,  *)
(* C+, C, C-, 'di mian' (exempted) and 'tong guo' (passed).                *)
(***************************************************************************)
C6_GradePointTable ==
    gpa_ret # <<>> =>
        /\ TrimsOf(gpa_str) # {}
        /\ \A t \in TrimsOf(gpa_str) :
                /\ t = <<"A", "+">> => gpa_ret[1] = 43
                /\ t = <<"A">> => gpa_ret[1] = 40
                /\ t = <<"A", "-">> => gpa_ret[1] = 37
                /\ t = <<"B", "+">> => gpa_ret[1] = 33
                /\ t = <<"B">> => gpa_ret[1] = 30
                /\ t = <<"B", "-">> => gpa_ret[1] = 27
                /\ t = <<"C", "+">> => gpa_ret[1] = 23
                /\ t = <<"C">> => gpa_ret[1] = 20
                /\ t = <<"C", "-">> => gpa_ret[1] = 17
                /\ t = <<"D", "+">> => gpa_ret[1] = 13
                /\ t = <<"D">> => gpa_ret[1] = 10
                /\ t = <<"D", "-">> => gpa_ret[1] = 7
                /\ t = <<"E">> => gpa_ret[1] = 0
                /\ t = <<"F">> => gpa_ret[1] = 0
                /\ t = <<"di", "mian">> => gpa_ret[1] = 9990
                /\ t = <<"tong", "guo">> => gpa_ret[1] = 9990
                /\ t \notin PassingGrades \cup FailingGrades => gpa_ret[1] = 0
                /\ gpa_ret[1] >= 17 <=> t \in PassingGrades

\* a whitespace-padded C- has been looked up and sits exactly on the pass mark
C6_Witness ==
    /\ pc = "returned"
    /\ gpa_str = <<" ", "C", "-">>
    /\ gpa_ret = <<17>>

(***************************************************************************)
(* C1: after analyze_student_grades, passed_courses_df is exactly the      *)
(* records, in their original order, whose grade reaches the pass mark and *)
(* whose credits are above 0, and total_earned_credits is the sum of the   *)
(* credits of exactly those records; a passing mark with 0 credits is not  *)
(* counted.                                                                *)
(***************************************************************************)
C1_PassedAndTotal ==
    (pc = "returned" /\ passed_courses_df # <<>>) =>
        LET keep == PassingRows(full_grades_df)
            passed == passed_courses_df[1].data
        IN  /\ Len(passed) = Cardinality(keep)
            /\ \A k \in 1..Len(passed) :
                  passed[k] = full_grades_df.data[Nth(keep, k)]
            /\ total_credits = <<SumOver(keep, CreditsOf(full_grades_df))>>

\* a 'tong guo' record of 0 credits followed by an A of 3 credits: only the
\* second is listed and the total is 3
C1_Witness ==
    /\ pc = "returned"
    /\ passed_courses_df # <<>>
    /\ Len(full_grades_df.data) = 2
    /\ Cell(full_grades_df, full_grades_df.data[1], "GPA") = Str(<<"tong", "guo">>)
    /\ Cell(full_grades_df, full_grades_df.data[1], "credits") = Num(0)
    /\ Cell(full_grades_df, full_grades_df.data[2], "GPA") = Str(<<"A">>)
    /\ passed_courses_df[1].data = <<full_grades_df.data[2]>>
    /\ total_credits = <<3>>

(***************************************************************************)
(* C2: remaining_credits is max(0, 128 - total_earned_credits): never      *)
(* negative, 0 from a total of 128 on, 128 - total below it.               *)
(***************************************************************************)
C2_RemainingClamped ==
    (pc = "returned" /\ total_credits # <<>>) =>
        /\ remaining_credits[1] >= 0
        /\ total_credits[1] >= 128 => remaining_credits[1] = 0
        /\ total_credits[1] < 128 => remaining_credits[1] = 128 - total_credits[1]

\* a total above the requirement (128 + 3) with 0 credits remaining
C2_Witness ==
    /\ pc = "returned"
    /\ total_credits = <<131>>
    /\ remaining_credits = <<0>>

(***************************************************************************)
(* Vocabulary of the run properties.                                       *)
(***************************************************************************)
Width(t) == Len(t.columns)

\* the tables of the list that have the six columns or more
WideEnough(tables) == SelectSeq(tables, LAMBDA t : Width(t) >= 6)

\* the row filter as the program applies it, on the first cell of a row
Survives(r) ==
    /\ str_match_year(astype_str(r[1]))
    /\ ~str_contains(astype_str(r[1]), SummaryMarker)

\* the first six cells of a row as stripped texts
SixStripped(r) == [k \in 1..6 |-> Str(strip(astype_str(r[k])))]

\* the surviving rows of the first k tables, table after table and row after row
RECURSIVE RowsInOrder(_, _)
RowsInOrder(tables, k) ==
    IF k = 0 THEN <<>>
    ELSE LET kept == SelectSeq(tables[k].data, Survives)
         IN  RowsInOrder(tables, k - 1) \o [j \in 1..Len(kept) |-> SixStripped(kept[j])]

Count(seq, x) == Cardinality({k \in 1..Len(seq) : seq[k] = x})

\* read_pdf returned and gave no table
ZeroTables == pc # "read_pdf" /\ raw_dfs = <<>> /\ exc # "read_pdf"

\* read_pdf gave tables and none of their rows survives the filter
TablesButNoRow ==
    /\ raw_dfs # <<>>
    /\ \A k \in 1..Len(raw_dfs) :
          Width(raw_dfs[k]) >= 6 =>
              \A j \in 1..Len(raw_dfs[k].data) : ~Survives(raw_dfs[k].data[j])

NoSummary == metrics = <<>> /\ shown = <<>> /\ NoResult

\* the value of an integer text: digits, or '-' and digits
IsIntegerText(s) == IsDigits(s) \/ (s # <<>> /\ Head(s) = "-" /\ IsDigits(Tail(s)))

IntegerOf(s) == IF IsDigits(s) THEN NatOf(s) ELSE 0 - NatOf(Tail(s))

\* the step of main() that calls analyze_student_grades and shows its result
AnalysisStep == pc = "analyze" /\ shown = <<>> /\ shown' # <<>>

(***************************************************************************)
(* C3: the row filter keeps a row of a table of six columns exactly when   *)
(* its academicYear cell, trimmed, is three digits and the cell does not   *)
(* contain the summary-row marker; so ' 112' is kept.                      *)
(***************************************************************************)
C3_RowKeptIffTrimmedYear ==
    [][pc = "call_filter" =>
          LET y == df_table.data[1][1]
          IN  Len(df_table'.data) = 1 <=>
                  /\ y.t = "str"
                  /\ \E t \in TrimsOf(y.s) : Len(t) = 3 /\ IsDigits(t)
                  /\ ~str_contains(y.s, SummaryMarker)]_vars

(***************************************************************************)
(* C4: a table of six columns or more, one of more than six included, is   *)
(* accepted: its first six columns are labelled, the extra ones dropped,   *)
(* its rows filtered, and the run does not end in an error for it.         *)
(***************************************************************************)
C4_WideTablesAccepted ==
    [][(pc = "loop" /\ idx <= Len(raw_dfs) /\ Width(raw_dfs[idx]) >= 6) =>
          /\ pc' = "loop"
          /\ idx' = idx + 1
          /\ full_grades_df'.columns = expected_columns
          /\ Len(full_grades_df'.data) =
                Len(full_grades_df.data) + Len(SelectSeq(raw_dfs[idx].data, Survives))]_vars

(***************************************************************************)
(* C5, as stated: the credits of every record of the two tables shown      *)
(* (the passed courses and the raw normalised table) are a number >= 0.    *)
(***************************************************************************)
C5_CreditsNeverNegative ==
    \A k \in 1..Len(shown) :
        \A j \in 1..Len(shown[k].data) :
            /\ Cell(shown[k], shown[k].data[j], "credits").t = "num"
            /\ Cell(shown[k], shown[k].data[j], "credits").n >= 0

(***************************************************************************)
(* C5, amended: the credits of every record of the two tables shown are a  *)
(* number: the value of the credits text when it is an integer text, a     *)
(* negative one included, and 0 for any other or missing text; the credits *)
(* of the passed courses are above 0.                                      *)
(***************************************************************************)
C5_CreditsNumeric ==
    [][AnalysisStep =>
          /\ Len(shown'[2].data) = Len(full_grades_df.data)
          /\ \A j \in 1..Len(full_grades_df.data) :
                LET text == Cell(full_grades_df, full_grades_df.data[j], "credits").s
                    out == Cell(shown'[2], shown'[2].data[j], "credits")
                IN  /\ out.t = "num"
                    /\ out.n = IF IsIntegerText(text) THEN IntegerOf(text) ELSE 0
          /\ \A j \in 1..Len(shown'[1].data) :
                /\ Cell(shown'[1], shown'[1].data[j], "credits").t = "num"
                /\ Cell(shown'[1], shown'[1].data[j], "credits").n > 0]_vars

\* the raw table shown holds a record of -3 credits and one whose missing
\* credits became 0, the passed courses only the record of 3 credits
C5_Witness ==
    /\ pc = "done"
    /\ Len(shown) = 2
    /\ Len(shown[2].data) = 3
    /\ Cell(shown[2], shown[2].data[1], "credits") = Num(0 - 3)
    /\ Cell(shown[2], shown[2].data[2], "credits") = Num(0)
    /\ Cell(shown[2], shown[2].data[3], "credits") = Num(3)
    /\ Len(shown[1].data) = 1

(***************************************************************************)
(* C7: a run never reports both a numeric result and an error; the         *)
(* warnings for skipped tables are no errors.                              *)
(***************************************************************************)
C7_ResultOrError == ~(metrics # <<>> /\ errors # <<>>)

\* a finished run with a result, a skipped-table warning and no error
C7_Witness ==
    /\ pc = "done"
    /\ metrics # <<>>
    /\ Count(warnings, "skipped_table") = 1
    /\ errors = <<>>

(***************************************************************************)
(* C8: a table of fewer than six columns is skipped with one warning and   *)
(* never aborts the run: the loop gives what it gives on the list without  *)
(* those tables, and the normalised rows are the surviving rows of the     *)
(* other tables in the order of the tables and of their rows.  The two     *)
(* lists are compared once the tables are read and again after the loop.   *)
(***************************************************************************)
C8_NarrowTablesSkipped ==
    LET kept == WideEnough(raw_dfs)
        whole == run_loop(raw_dfs, Len(raw_dfs))
        rest == run_loop(kept, Len(kept))
    IN  /\ pc \in {"check_tables", "analyze"} =>
              /\ whole.df = rest.df
              /\ whole.exc = rest.exc
              /\ rest.skipped = 0
              /\ whole.exc = "" => whole.skipped = Len(raw_dfs) - Len(kept)
        /\ pc = "except" /\ exc = "ValueError" => Width(raw_dfs[idx]) >= 6
        /\ pc = "analyze" =>
              /\ full_grades_df = strip_columns(dropna_all(rest.df))
              /\ full_grades_df.data = RowsInOrder(kept, Len(kept))
              /\ Count(warnings, "skipped_table") = Len(raw_dfs) - Len(kept)

\* three tables read, the second of five columns: one warning, and the rows of
\* the first and the third table normalised
C8_Witness ==
    /\ pc = "analyze"
    /\ Len(raw_dfs) = 3
    /\ Width(raw_dfs[2]) = 5
    /\ warnings = <<"skipped_table">>
    /\ Len(full_grades_df.data) = 2
    /\ full_grades_df.data[1] # full_grades_df.data[2]

(***************************************************************************)
(* C9, as stated: with zero tables the run ends without an error, gives    *)
(* the 'no tables' signal and the summary 0, 128, []; with tables of which *)
(* no row survives it gives the 'no valid rows' signal and that summary.   *)
(***************************************************************************)
EmptySummary ==
    /\ metrics = <<0, GRADUATION_REQUIREMENT>>
    /\ passed_courses_df # <<>>
    /\ Len(passed_courses_df[1].data) = 0

C9_EmptySummaryReported ==
    pc = "done" =>
        /\ ZeroTables => (errors = <<>> /\ warnings = <<"no_tables">> /\ EmptySummary)
        /\ TablesButNoRow =>
              (errors = <<>> /\ Count(warnings, "no_valid_rows") = 1 /\ EmptySummary)

(***************************************************************************)
(* C9, amended: with zero tables the run ends without an error, gives the  *)
(* 'no tables' signal and reports no summary at all; with tables of which  *)
(* no row survives it reports no summary either, and either gives the      *)
(* distinct 'no valid rows' signal and no error, or ends in the error of a *)
(* table of more than six columns.                                         *)
(***************************************************************************)
C9_EmptyRunSignals ==
    pc = "done" =>
        /\ ZeroTables => (errors = <<>> /\ warnings = <<"no_tables">> /\ NoSummary)
        /\ TablesButNoRow =>
              /\ NoSummary
              /\ Count(warnings, "no_tables") = 0
              /\ errors = <<>> =>
                    /\ Count(warnings, "no_valid_rows") = 1
                    /\ warnings[Len(warnings)] = "no_valid_rows"
              /\ errors # <<>> =>
                    /\ Count(warnings, "no_valid_rows") = 0
                    /\ \E k \in 1..Len(raw_dfs) : Width(raw_dfs[k]) > 6

\* a finished run whose only table holds only the summary row
C9_Witness ==
    /\ pc = "done"
    /\ Len(raw_dfs) = 1
    /\ Width(raw_dfs[1]) = 6
    /\ TablesButNoRow
    /\ warnings = <<"no_valid_rows">>
    /\ errors = <<>>
    /\ NoSummary

(***************************************************************************)
(* C10, as stated: analyze_student_grades leaves the DataFrame it is given *)
(* unchanged, so the raw table shown after it is the normaliser's output.  *)
(***************************************************************************)
C10_ArgumentUnchanged ==
    [][AnalysisStep => (full_grades_df' = full_grades_df /\ shown'[2] = full_grades_df)]_vars

(***************************************************************************)
(* C10, amended: analyze_student_grades changes the DataFrame it is given  *)
(* in place: it keeps the records, their order and the five text fields    *)
(* of each, replaces credits by its number and adds the columns            *)
(* GPA_Numeric and isPassed; the raw table shown is that changed table.    *)
(***************************************************************************)
C10_ArgumentChangedInPlace ==
    [][AnalysisStep =>
          /\ shown'[2] = full_grades_df'
          /\ full_grades_df' # full_grades_df
          /\ full_grades_df'.columns = expected_columns \o <<"GPA_Numeric", "isPassed">>
          /\ Len(full_grades_df'.data) = Len(full_grades_df.data)
          /\ \A j \in 1..Len(full_grades_df.data) :
                /\ \A c \in {"academicYear", "term", "courseCode", "courseName", "GPA"} :
                      Cell(full_grades_df', full_grades_df'.data[j], c) =
                          Cell(full_grades_df, full_grades_df.data[j], c)
                /\ Cell(full_grades_df, full_grades_df.data[j], "credits").t = "str"
                /\ Cell(full_grades_df', full_grades_df'.data[j], "credits").t = "num"]_vars

\* the raw table shown has the two added columns and a failed course in it
C10_Witness ==
    /\ pc = "done"
    /\ Len(shown) = 2
    /\ shown[2] = full_grades_df
    /\ Len(shown[2].columns) = 8
    /\ Len(shown[2].data) > Len(shown[1].data)

====
